---- MODULE Spec2Model ----
(***************************************************************************)
(* Model of the notebook 01_sft_gemma_finetuning_on_vertex.ipynb: a linear *)
(* script of cells run top to bottom (Run all).  A cell that raises stops  *)
(* the run.  The Vertex AI platform, the shell commands and the wall clock *)
(* are the environment: every SDK call either returns or raises, and the   *)
(* identifiers the platform hands out are chosen by the platform.          *)
(***************************************************************************)
EXTENDS Integers, Sequences, FiniteSets, TLC

VARIABLES
    pc,                         \* the step of the notebook that runs next
    err,                        \* the exception that stopped the run, or NoError
    nowLog,                     \* the readings datetime.now() returned, in call order
    BUCKET_URI,
    STAGING_BUCKET,
    bucketsMade,                \* buckets `gsutil mb` was run for, with their location
    bucket_region,              \* the notebook variable bucket_region
    iamGranted,                 \* the bucket `gsutil iam ch` was issued for, or ""
    models,                     \* the notebook's dict `models`   (set of its values)
    endpoints,                  \* the notebook's dict `endpoints` (set of its values)
    HF_TOKEN,
    MODEL_ID,
    ACCELERATOR_TYPE,
    finetuning_precision_mode,
    machine_type,
    accelerator_count,
    job_name,
    lora_adapter_dir,
    merged_model_dir,
    train_job,                  \* the CustomContainerTrainingJob object, or Unset
    model_name,
    endpoint,                   \* the notebook variable `endpoint` (a resource name)
    model,                      \* the notebook variable `model` (a resource name)
    accelerator_type,           \* the deploy cell's accelerator_type
    frame,                      \* the locals `endpoint` and `model` of deploy_model_vllm
    bucketRemoved,              \* `gsutil rm -r` was issued for the bucket
    ENDPOINT_NAME,
    calls,                      \* the platform SDK calls made so far, in order
    jobsP,                      \* training jobs existing on the platform
    endpointsP,                 \* endpoints of this run existing on the platform
    modelsP                     \* models of this run existing in the Model Registry

vars == << pc, err, nowLog, BUCKET_URI, STAGING_BUCKET, bucketsMade, bucket_region,
           iamGranted,
           models, endpoints, HF_TOKEN, MODEL_ID, ACCELERATOR_TYPE,
           finetuning_precision_mode, machine_type, accelerator_count, job_name,
           lora_adapter_dir, merged_model_dir, train_job, model_name, endpoint,
           model, accelerator_type, frame, bucketRemoved, ENDPOINT_NAME, calls,
           jobsP, endpointsP, modelsP >>

bucketVars == << BUCKET_URI, STAGING_BUCKET, bucketsMade, bucket_region, iamGranted,
                bucketRemoved >>
dictVars == << models, endpoints >>
tuneVars == << MODEL_ID, ACCELERATOR_TYPE, finetuning_precision_mode, machine_type,
               accelerator_count >>
nameVars == << job_name, lora_adapter_dir, merged_model_dir >>
deployVars == << model_name, endpoint, model, accelerator_type, frame >>
platformVars == << jobsP, endpointsP, modelsP >>

-----------------------------------------------------------------------------
(* Bounds *)

\* The wall clock takes the readings 0 .. MaxTick.
MaxTick == 2

-----------------------------------------------------------------------------
(* Values *)

Unset == "<unset>"              \* a name not yet bound by any cell
None == "None"                  \* Python's None
NoError == "<none>"

PROJECT_ID == "crafty-progress-421108"
REGION == "europe-west4"

\* The menu of the MODEL_ID form field.
ModelIds ==
    { "gemma-2b", "gemma-2b-it", "gemma-7b", "gemma-7b-it",
      "gemma-1.1-2b-it", "gemma-1.1-7b-it" }

\* The menu of the ACCELERATOR_TYPE form field, and a value typed by hand.
MenuAccelerators == { "NVIDIA_TESLA_V100", "NVIDIA_L4", "NVIDIA_TESLA_A100" }
Accelerators == MenuAccelerators \cup { "NVIDIA_TESLA_T4" }

PrecisionModes == { "4bit", "8bit", "float16" }

HfTokens == { "", "hf_read_token" }

\* BUCKET_URI as the user may leave or set it.
BucketUris == { None, "gs://", "  ", "gs://my-bucket/run", "my-bucket" }

\* What `gsutil ls -Lb` reports as the bucket's location; "" is no output.
BucketRegions == { "EUROPE-WEST4", "US-CENTRAL1", "" }

\* ENDPOINT_NAME as the user may leave or set it.
EndpointNames == { "", "1234567890123456789" }

\* The ids the platform may give to a new endpoint and to a new model.
EndpointIds == { "1234567890123456789", "555" }
ModelResourceIds == { "901" }

-----------------------------------------------------------------------------
(* Strings *)

StartsWith(s, p) == Len(s) >= Len(p) /\ SubSeq(s, 1, Len(p)) = p

EndsWith(s, p) == Len(s) >= Len(p) /\ SubSeq(s, Len(s) - Len(p) + 1, Len(s)) = p

\* Python's `sub in s`.
Contains(s, sub) ==
    \E i \in 1..(Len(s) - Len(sub) + 1) : SubSeq(s, i, i + Len(sub) - 1) = sub

\* Python's s.strip() for blanks.
RECURSIVE LStrip(_)
LStrip(s) == IF Len(s) > 0 /\ SubSeq(s, 1, 1) = " " THEN LStrip(Tail(s)) ELSE s

RECURSIVE RStrip(_)
RStrip(s) ==
    IF Len(s) > 0 /\ SubSeq(s, Len(s), Len(s)) = " "
    THEN RStrip(SubSeq(s, 1, Len(s) - 1))
    ELSE s

Strip(s) == RStrip(LStrip(s))

\* Python's s.lower() on the letters that occur in region names.
Upper == "ABCDEFGHIJKLMNOPQRSTUVWXYZ"
LowerLetters == "abcdefghijklmnopqrstuvwxyz"

LowerChar(c) ==
    IF \E i \in 1..Len(Upper) : SubSeq(Upper, i, i) = c
    THEN LET i == CHOOSE k \in 1..Len(Upper) : SubSeq(Upper, k, k) = c
         IN  SubSeq(LowerLetters, i, i)
    ELSE c

RECURSIVE Lower(_)
Lower(s) == IF s = "" THEN "" ELSE LowerChar(SubSeq(s, 1, 1)) \o Lower(Tail(s))

\* os.path.join(a, b) on POSIX.
PathJoin(a, b) ==
    IF StartsWith(b, "/") THEN b
    ELSE IF a = "" \/ EndsWith(a, "/") THEN a \o b
    ELSE a \o "/" \o b

\* "/".join(s.split("/")[:3]): s up to, not including, its third "/".
SlashPositions(s) == { i \in 1..Len(s) : SubSeq(s, i, i) = "/" }

FirstThreeParts(s) ==
    LET ps == SlashPositions(s)
    IN  IF Cardinality(ps) < 3 THEN s
        ELSE LET third == CHOOSE i \in ps : Cardinality({ j \in ps : j < i }) = 2
             IN  SubSeq(s, 1, third - 1)

-----------------------------------------------------------------------------
(* The clock and strftime *)

\* datetime.now() at reading t: the fields of the datetime.
DateTimeAt(t) ==
    LET s == 7 + t * 30011
    IN  [ year |-> 2024, month |-> 2, day |-> 9 + (s \div 86400),
          hour |-> (s % 86400) \div 3600, minute |-> (s % 3600) \div 60,
          second |-> s % 60 ]

Digit(d) == SubSeq("0123456789", d + 1, d + 1)

\* %m %d %H %M %S: two digits, zero padded.
Pad2(n) == Digit((n \div 10) % 10) \o Digit(n % 10)

\* %Y: four digits, zero padded.
Pad4(n) == Pad2(n \div 100) \o Pad2(n % 100)

\* strftime("%Y%m%d%H%M%S")
StrfCompact(dt) ==
    Pad4(dt.year) \o Pad2(dt.month) \o Pad2(dt.day)
        \o Pad2(dt.hour) \o Pad2(dt.minute) \o Pad2(dt.second)

\* Variant: the format of the bucket cell behind one underscore.
StrfJobSuffix_Compact(dt) == "_" \o StrfCompact(dt)

\* strftime("_%Y%m%d_%H%M%S")
StrfJobSuffix(dt) ==
    "_" \o Pad4(dt.year) \o Pad2(dt.month) \o Pad2(dt.day)
        \o "_" \o Pad2(dt.hour) \o Pad2(dt.minute) \o Pad2(dt.second)

\* The last reading of the clock; the clock never runs backwards.
Clock == IF nowLog = << >> THEN 0 ELSE nowLog[Len(nowLog)]

get_job_name_with_datetime(prefix, t) == prefix \o StrfJobSuffix(DateTimeAt(t))

-----------------------------------------------------------------------------
(* A run that raises stops: no later cell runs. *)

Raise(e) == pc' = "failed" /\ err' = e

Init ==
    /\ pc = "bucket"
    /\ err = NoError
    /\ nowLog = << >>
    /\ BUCKET_URI = Unset
    /\ STAGING_BUCKET = Unset
    /\ bucketsMade = {}
    /\ bucket_region = Unset
    /\ iamGranted = ""
    /\ models = {}
    /\ endpoints = {}
    /\ HF_TOKEN = Unset
    /\ MODEL_ID = Unset
    /\ ACCELERATOR_TYPE = Unset
    /\ finetuning_precision_mode = Unset
    /\ machine_type = Unset
    /\ accelerator_count = 0
    /\ job_name = Unset
    /\ lora_adapter_dir = Unset
    /\ merged_model_dir = Unset
    /\ train_job = Unset
    /\ model_name = Unset
    /\ endpoint = Unset
    /\ model = Unset
    /\ accelerator_type = Unset
    /\ frame = [ endpoint |-> Unset, model |-> Unset ]
    /\ bucketRemoved = FALSE
    /\ ENDPOINT_NAME = Unset
    /\ calls = << >>
    /\ jobsP = {}
    /\ endpointsP = {}
    /\ modelsP = {}

-----------------------------------------------------------------------------
(* Cell "e1i_pnuHTovz": the Cloud Storage bucket *)

\* Variant: the bare scheme "gs://" is taken for a bucket of the user.
BucketIsUnset_NoScheme(uri) == uri = None \/ Strip(uri) = ""

\* The cell makes its own bucket when BUCKET_URI is left unset.
BucketIsUnset(uri) == uri = None \/ Strip(uri) = "" \/ uri = "gs://"

NewBucketUri(now) == "gs://" \o PROJECT_ID \o "-tmp-" \o now

\* The exception the else-branch raises for a bucket given by the user, whose
\* location `gsutil ls -Lb` printed as `out`; NoError if it raises none.
BucketCheck(uri, out) ==
    IF ~StartsWith(uri, "gs://") THEN "AssertionError: BUCKET_URI must start with gs://"
    ELSE IF out = "" THEN "IndexError: shell_output[0]"
    ELSE IF Lower(Strip(out)) # REGION THEN "ValueError: bucket region"
    ELSE NoError

\* The `!` shell commands (gsutil mb, gsutil iam ch) raise nothing in the
\* notebook whatever their exit status; only the Python around them can raise.
BucketCell ==
    /\ pc = "bucket"
    /\ \E t \in Clock..MaxTick, uri \in BucketUris, out \in BucketRegions :
         LET now == StrfCompact(DateTimeAt(t))
             fresh == BucketIsUnset(uri)
             newUri == IF fresh THEN NewBucketUri(now) ELSE uri
             outcome == IF fresh THEN NoError ELSE BucketCheck(uri, out)
         IN  /\ nowLog' = Append(nowLog, t)
             /\ BUCKET_URI' = newUri
             /\ bucketsMade' = IF fresh
                               THEN { [ uri |-> newUri, location |-> REGION ] }
                               ELSE {}
             /\ bucket_region' = IF ~fresh /\ StartsWith(uri, "gs://") /\ out # ""
                                 THEN Lower(Strip(out))
                                 ELSE bucket_region
             /\ IF outcome = NoError
                THEN /\ STAGING_BUCKET' = PathJoin(newUri, "temporal")
                     /\ iamGranted' = FirstThreeParts(newUri)
                     /\ pc' = "init"
                     /\ err' = NoError
                ELSE /\ Raise(outcome)
                     /\ UNCHANGED << STAGING_BUCKET, iamGranted >>
    /\ UNCHANGED << bucketRemoved, dictVars, HF_TOKEN, tuneVars, nameVars, train_job, deployVars,
                    ENDPOINT_NAME, calls, platformVars >>

-----------------------------------------------------------------------------
(* Cell "855d6b96f291": dicts, aiplatform.init, HF_TOKEN *)

\* Variant: the token is only checked against None.
HfTokenAssert_NotNone(token) == token # None

HfTokenAssert(token) == token # ""

InitCell ==
    /\ pc = "init"
    /\ \E token \in HfTokens :
         /\ HF_TOKEN' = token
         /\ models' = {}
         /\ endpoints' = {}
         /\ IF HfTokenAssert(token)
            THEN pc' = "finetune" /\ err' = NoError
            ELSE Raise("AssertionError: HF_TOKEN")
    /\ UNCHANGED << nowLog, bucketVars, tuneVars, nameVars, train_job, deployVars,
                    ENDPOINT_NAME, calls, platformVars >>

-----------------------------------------------------------------------------
(* Cell "ivVGS9dHXPOz": Finetune *)

\* Variant: the size tag is looked for in upper case.
Assert7bNotV100_UpperCase(m, a) == Contains(m, "7B") => a # "NVIDIA_TESLA_V100"

\* The first assertion: no 7B model on NVIDIA_TESLA_V100.
Assert7bNotV100(m, a) == Contains(m, "7b") => a # "NVIDIA_TESLA_V100"

\* Variant: only float16 is refused on NVIDIA_L4.
Assert7bL4Is4bit_AllowsQuantized(m, a, p) ==
    (Contains(m, "7b") /\ a = "NVIDIA_L4") => p # "float16"

\* The second assertion: a 7B model on NVIDIA_L4 is finetuned in 4bit.
Assert7bL4Is4bit(m, a, p) ==
    (Contains(m, "7b") /\ a = "NVIDIA_L4") => p = "4bit"

\* Variant: the chain ends in an else that falls back to the smallest machine.
MachineTypeFor_Fallback(a) ==
    IF a = "NVIDIA_L4" THEN "g2-standard-12"
    ELSE IF a = "NVIDIA_TESLA_A100" THEN "a2-highgpu-1g"
    ELSE "n1-standard-8"

\* The if / elif chain; machine_type stays None when no branch is taken.
MachineTypeFor(a) ==
    IF a = "NVIDIA_TESLA_V100" THEN "n1-standard-8"
    ELSE IF a = "NVIDIA_L4" THEN "g2-standard-12"
    ELSE IF a = "NVIDIA_TESLA_A100" THEN "a2-highgpu-1g"
    ELSE None

\* Variant: the precision assertion sits outside the 7B branch.
FinetuneCheck_Unnested(m, a, p) ==
    IF ~Assert7bNotV100(m, a) THEN "AssertionError: 7B on NVIDIA_TESLA_V100"
    ELSE IF a = "NVIDIA_L4" /\ p # "4bit" THEN "AssertionError: 7B on NVIDIA_L4 not 4bit"
    ELSE IF MachineTypeFor(a) = None THEN "AssertionError: machine type"
    ELSE NoError

\* The exception the validation raises, in the order of the code; NoError if none.
FinetuneCheck(m, a, p) ==
    IF ~Assert7bNotV100(m, a) THEN "AssertionError: 7B on NVIDIA_TESLA_V100"
    ELSE IF ~Assert7bL4Is4bit(m, a, p) THEN "AssertionError: 7B on NVIDIA_L4 not 4bit"
    ELSE IF MachineTypeFor(a) = None THEN "AssertionError: machine type"
    ELSE NoError

\* Has the if / elif chain been reached when the validation ends with `outcome`?
MachineTypeAfter(a, outcome) ==
    IF outcome \in { "AssertionError: 7B on NVIDIA_TESLA_V100",
                     "AssertionError: 7B on NVIDIA_L4 not 4bit" }
    THEN None
    ELSE MachineTypeFor(a)

\* Parameters, validation, then job_name, the training job object and the two
\* output directories; three readings of the clock, in this order.
FinetunePrepare ==
    /\ pc = "finetune"
    /\ \E m \in ModelIds, a \in Accelerators, p \in PrecisionModes :
         LET outcome == FinetuneCheck(m, a, p)
         IN  /\ MODEL_ID' = m
             /\ ACCELERATOR_TYPE' = a
             /\ finetuning_precision_mode' = p
             /\ accelerator_count' = 1
             /\ machine_type' = MachineTypeAfter(a, outcome)
             /\ IF outcome = NoError
                THEN \E t1 \in Clock..MaxTick :
                       \E t2 \in t1..MaxTick :
                         \E t3 \in t2..MaxTick :
                           /\ nowLog' = nowLog \o << t1, t2, t3 >>
                           /\ job_name' = get_job_name_with_datetime("gemma-lora-train", t1)
                           /\ train_job' = job_name'
                           /\ lora_adapter_dir' =
                                  get_job_name_with_datetime("gemma-lora-adapter", t2)
                           /\ merged_model_dir' =
                                  get_job_name_with_datetime("gemma-merged-model", t3)
                           /\ pc' = "train_run"
                           /\ err' = NoError
                ELSE /\ Raise(outcome)
                     /\ UNCHANGED << nowLog, nameVars, train_job >>
    /\ UNCHANGED << bucketVars, dictVars, HF_TOKEN, deployVars, ENDPOINT_NAME, calls,
                    platformVars >>

lora_output_dir == PathJoin(STAGING_BUCKET, lora_adapter_dir)
\* Variant: the merged model is written into the adapter's directory.
merged_model_output_dir_Adapter == PathJoin(STAGING_BUCKET, lora_adapter_dir)

merged_model_output_dir == PathJoin(STAGING_BUCKET, merged_model_dir)
base_model_id == PathJoin("google/", MODEL_ID)

SERVICE_ACCOUNT == "123456789-compute@developer.gserviceaccount.com"

\* One platform SDK call: the method, whether it returned (ok) or raised, the
\* resource it was made on and its arguments.
Call(op, ok, on, args) == [ op |-> op, ok |-> ok, on |-> on, args |-> args ]

\* Variant: a 7B model is given two GPUs.
TrainRunArgs_GpuBySize ==
    [ pretrained_model_id |-> base_model_id,
      output_dir |-> lora_output_dir,
      merge_base_and_lora_output_dir |-> merged_model_output_dir,
      precision_mode |-> finetuning_precision_mode,
      huggingface_access_token |-> HF_TOKEN,
      replica_count |-> 1,
      machine_type |-> machine_type,
      accelerator_type |-> ACCELERATOR_TYPE,
      accelerator_count |-> IF Contains(MODEL_ID, "7b") THEN 2 ELSE accelerator_count,
      service_account |-> SERVICE_ACCOUNT ]

\* The arguments of train_job.run.
TrainRunArgs ==
    [ pretrained_model_id |-> base_model_id,
      output_dir |-> lora_output_dir,
      merge_base_and_lora_output_dir |-> merged_model_output_dir,
      precision_mode |-> finetuning_precision_mode,
      huggingface_access_token |-> HF_TOKEN,
      replica_count |-> 1,
      machine_type |-> machine_type,
      accelerator_type |-> ACCELERATOR_TYPE,
      accelerator_count |-> accelerator_count,
      service_account |-> SERVICE_ACCOUNT ]

\* train_job.run returns once the job has completed.
TrainRun ==
    /\ pc = "train_run"
    /\ calls' = Append(calls, Call("train_job.run", TRUE, train_job, TrainRunArgs))
    /\ jobsP' = jobsP \cup { train_job }
    /\ pc' = "deploy"
    /\ UNCHANGED << err, nowLog, bucketVars, dictVars, HF_TOKEN, tuneVars, nameVars,
                    train_job, deployVars, ENDPOINT_NAME, endpointsP, modelsP >>

\* Variant: the failure of the job is swallowed and the run goes on to deploy.
TrainRunFail_GoesOn ==
    /\ pc = "train_run"
    /\ calls' = Append(calls, Call("train_job.run", FALSE, train_job, TrainRunArgs))
    /\ jobsP' = jobsP \cup { train_job }
    /\ pc' = "deploy"
    /\ UNCHANGED << err, nowLog, bucketVars, dictVars, HF_TOKEN, tuneVars, nameVars,
                    train_job, deployVars, ENDPOINT_NAME, endpointsP, modelsP >>

\* train_job.run raises: the submission or the job failed.
TrainRunFail ==
    /\ pc = "train_run"
    /\ calls' = Append(calls, Call("train_job.run", FALSE, train_job, TrainRunArgs))
    /\ \E submitted \in BOOLEAN :
         jobsP' = IF submitted THEN jobsP \cup { train_job } ELSE jobsP
    /\ Raise("SDKError: train_job.run")
    /\ UNCHANGED << nowLog, bucketVars, dictVars, HF_TOKEN, tuneVars, nameVars,
                    train_job, deployVars, ENDPOINT_NAME, endpointsP, modelsP >>

-----------------------------------------------------------------------------
(* Cell "qmHW6m8xG_4U": Deploy, and deploy_model_vllm *)

\* The integer form field accelerator_count of the deploy cell.
DeployAcceleratorCounts == { 1, 2, 16 }

RECURSIVE IntStr(_)
IntStr(n) == IF n < 10 THEN Digit(n) ELSE IntStr(n \div 10) \o Digit(n % 10)

EndpointResource(id) ==
    "projects/" \o PROJECT_ID \o "/locations/" \o REGION \o "/endpoints/" \o id

ModelResource(id) ==
    "projects/" \o PROJECT_ID \o "/locations/" \o REGION \o "/models/" \o id

\* Variant: the tensor parallel size is written as 1.
vllm_args_OneGpu(model_id, count, max_model_len) ==
    << "--host=0.0.0.0",
       "--port=7080",
       "--model=" \o model_id,
       "--tensor-parallel-size=1",
       "--swap-space=16",
       "--gpu-memory-utilization=0.9",
       "--max-model-len=" \o IntStr(max_model_len),
       "--dtype=auto",
       "--disable-log-stats" >>

\* The serving container's arguments built by deploy_model_vllm.
vllm_args(model_id, count, max_model_len) ==
    << "--host=0.0.0.0",
       "--port=7080",
       "--model=" \o model_id,
       "--tensor-parallel-size=" \o IntStr(count),
       "--swap-space=16",
       "--gpu-memory-utilization=0.9",
       "--max-model-len=" \o IntStr(max_model_len),
       "--dtype=auto",
       "--disable-log-stats" >>

\* The deploy cell's assignments and the evaluation of the call's arguments, up
\* to the entry of deploy_model_vllm; one reading of the clock.
DeployCellEnter(t, count) ==
    /\ machine_type' = "g2-standard-12"
    /\ accelerator_type' = "NVIDIA_L4"
    /\ accelerator_count' = count
    /\ nowLog' = Append(nowLog, t)
    /\ model_name' = get_job_name_with_datetime("gemma-vllm-serve", t)

\* aiplatform.Endpoint.create returns the new endpoint.
EndpointCreate ==
    /\ pc = "deploy"
    /\ \E t \in Clock..MaxTick, count \in DeployAcceleratorCounts, id \in EndpointIds :
         /\ DeployCellEnter(t, count)
         /\ calls' = Append(calls,
                Call("Endpoint.create", TRUE, EndpointResource(id),
                     [ display_name |-> model_name' \o "-endpoint" ]))
         /\ endpointsP' = endpointsP \cup { EndpointResource(id) }
         /\ frame' = [ frame EXCEPT !.endpoint = EndpointResource(id) ]
    /\ pc' = "model_upload"
    /\ UNCHANGED << err, bucketVars, dictVars, HF_TOKEN, MODEL_ID, ACCELERATOR_TYPE,
                    finetuning_precision_mode, nameVars, train_job, endpoint, model,
                    ENDPOINT_NAME, jobsP, modelsP >>

EndpointCreateFail ==
    /\ pc = "deploy"
    /\ \E t \in Clock..MaxTick, count \in DeployAcceleratorCounts :
         /\ DeployCellEnter(t, count)
         /\ calls' = Append(calls,
                Call("Endpoint.create", FALSE, Unset,
                     [ display_name |-> model_name' \o "-endpoint" ]))
    /\ Raise("SDKError: Endpoint.create")
    /\ UNCHANGED << bucketVars, dictVars, HF_TOKEN, MODEL_ID, ACCELERATOR_TYPE,
                    finetuning_precision_mode, nameVars, train_job, endpoint, model,
                    frame, ENDPOINT_NAME, platformVars >>

\* The arguments of aiplatform.Model.upload; model_id is merged_model_output_dir
\* and base_model_id is base_model_path_prefix followed by MODEL_ID.
ModelUploadArgs ==
    [ display_name |-> model_name,
      serving_container_args |-> vllm_args(merged_model_output_dir, accelerator_count, 2048),
      serving_container_environment_variables |->
          IF HF_TOKEN # ""
          THEN [ MODEL_ID |-> "google/" \o MODEL_ID, DEPLOY_SOURCE |-> "notebook",
                 HF_TOKEN |-> HF_TOKEN ]
          ELSE [ MODEL_ID |-> "google/" \o MODEL_ID, DEPLOY_SOURCE |-> "notebook" ] ]

ModelUpload ==
    /\ pc = "model_upload"
    /\ \E id \in ModelResourceIds :
         /\ calls' = Append(calls,
                Call("Model.upload", TRUE, ModelResource(id), ModelUploadArgs))
         /\ modelsP' = modelsP \cup { ModelResource(id) }
         /\ frame' = [ frame EXCEPT !.model = ModelResource(id) ]
    /\ pc' = "model_deploy"
    /\ UNCHANGED << err, nowLog, bucketVars, dictVars, HF_TOKEN, tuneVars, nameVars,
                    train_job, model_name, endpoint, model, accelerator_type,
                    ENDPOINT_NAME, jobsP, endpointsP >>

ModelUploadFail ==
    /\ pc = "model_upload"
    /\ calls' = Append(calls, Call("Model.upload", FALSE, Unset, ModelUploadArgs))
    /\ Raise("SDKError: Model.upload")
    /\ UNCHANGED << nowLog, bucketVars, dictVars, HF_TOKEN, tuneVars, nameVars,
                    train_job, deployVars, ENDPOINT_NAME, platformVars >>

\* The arguments of model.deploy.
ModelDeployArgs ==
    [ endpoint |-> frame.endpoint,
      machine_type |-> machine_type,
      accelerator_type |-> accelerator_type,
      accelerator_count |-> accelerator_count,
      service_account |-> SERVICE_ACCOUNT ]

\* model.deploy returns once the model is deployed on the endpoint; then
\* deploy_model_vllm returns (model, endpoint) and the cell binds both names.
ModelDeploy ==
    /\ pc = "model_deploy"
    /\ calls' = Append(calls, Call("model.deploy", TRUE, frame.model, ModelDeployArgs))
    /\ model' = frame.model
    /\ endpoint' = frame.endpoint
    /\ pc' = "predict"
    /\ UNCHANGED << err, nowLog, bucketVars, dictVars, HF_TOKEN, tuneVars, nameVars,
                    train_job, model_name, accelerator_type, frame, ENDPOINT_NAME,
                    platformVars >>

\* Variant: a failed model.deploy is tried again.
ModelDeployFail_Retry ==
    /\ pc = "model_deploy"
    /\ calls' = Append(calls, Call("model.deploy", FALSE, frame.model, ModelDeployArgs))
    /\ UNCHANGED << pc, err, nowLog, bucketVars, dictVars, HF_TOKEN, tuneVars, nameVars,
                    train_job, deployVars, ENDPOINT_NAME, platformVars >>

ModelDeployFail ==
    /\ pc = "model_deploy"
    /\ calls' = Append(calls, Call("model.deploy", FALSE, frame.model, ModelDeployArgs))
    /\ Raise("SDKError: model.deploy")
    /\ UNCHANGED << nowLog, bucketVars, dictVars, HF_TOKEN, tuneVars, nameVars,
                    train_job, deployVars, ENDPOINT_NAME, platformVars >>

-----------------------------------------------------------------------------
(* Cell "2UYUNn60G_4U": Predict *)

\* Variant: ENDPOINT_NAME is ignored.
PredictEndpoint_IgnoresName(name, current) == current

\* The endpoint the request is sent to: an existing endpoint loaded by name when
\* ENDPOINT_NAME is set, else the endpoint the deploy cell bound.
\* aiplatform.Endpoint(name) builds the handle; the platform is first asked by
\* endpoint.predict.
PredictEndpoint(name, current) ==
    IF name # "" THEN EndpointResource(name) ELSE current

\* Variant: the prompt is sent twice.
Instances_Twice(prompt) ==
    LET i == [ prompt |-> "### Human: " \o prompt \o "### Assistant: ",
               max_tokens |-> 128, temperature |-> "1.0", top_p |-> "0.9", top_k |-> 1 ]
    IN  << i, i >>

\* The request body.
Instances(prompt) ==
    << [ prompt |-> "### Human: " \o prompt \o "### Assistant: ",
         max_tokens |-> 128,
         temperature |-> "1.0",
         top_p |-> "0.9",
         top_k |-> 1 ] >>

PredictArgs == [ instances |-> Instances("How would the Future of AI in 10 Years look?") ]

\* endpoint.predict returns the response.
Predict ==
    /\ pc = "predict"
    /\ \E name \in EndpointNames :
         /\ ENDPOINT_NAME' = name
         /\ endpoint' = PredictEndpoint(name, endpoint)
         /\ calls' = Append(calls, Call("endpoint.predict", TRUE, endpoint', PredictArgs))
    /\ pc' = "cleanup"
    /\ UNCHANGED << err, nowLog, bucketVars, dictVars, HF_TOKEN, tuneVars, nameVars,
                    train_job, model_name, model, accelerator_type, frame,
                    platformVars >>

PredictFail ==
    /\ pc = "predict"
    /\ \E name \in EndpointNames :
         /\ ENDPOINT_NAME' = name
         /\ endpoint' = PredictEndpoint(name, endpoint)
         /\ calls' = Append(calls, Call("endpoint.predict", FALSE, endpoint', PredictArgs))
    /\ Raise("SDKError: endpoint.predict")
    /\ UNCHANGED << nowLog, bucketVars, dictVars, HF_TOKEN, tuneVars, nameVars,
                    train_job, model_name, model, accelerator_type, frame,
                    platformVars >>

-----------------------------------------------------------------------------
(* Cell "911406c1561e": Clean up *)

\* The values of a dict in the order the loop visits them.
RECURSIVE ValuesInOrder(_)
ValuesInOrder(S) ==
    IF S = {} THEN << >>
    ELSE LET x == CHOOSE v \in S : TRUE IN << x >> \o ValuesInOrder(S \ { x })

\* One successful delete call for each resource of the sequence.
DeleteCalls(op, rs) == [ i \in 1..Len(rs) |-> Call(op, TRUE, rs[i], [ force |-> TRUE ]) ]

\* train_job.delete(), the loop over endpoints.values(), the loop over
\* models.values(), and the optional removal of the bucket.
CleanUp ==
    /\ pc = "cleanup"
    /\ calls' = calls \o << Call("train_job.delete", TRUE, train_job, << >>) >>
                      \o DeleteCalls("endpoint.delete", ValuesInOrder(endpoints))
                      \o DeleteCalls("model.delete", ValuesInOrder(models))
    /\ jobsP' = jobsP \ { train_job }
    /\ endpointsP' = endpointsP \ endpoints
    /\ modelsP' = modelsP \ models
    /\ endpoint' = IF endpoints = {} THEN endpoint
                   ELSE ValuesInOrder(endpoints)[Cardinality(endpoints)]
    /\ model' = IF models = {} THEN model
                ELSE ValuesInOrder(models)[Cardinality(models)]
    /\ \E delete_bucket \in BOOLEAN : bucketRemoved' = delete_bucket
    /\ pc' = "done"
    /\ UNCHANGED << err, nowLog, BUCKET_URI, STAGING_BUCKET, bucketsMade, bucket_region,
                    iamGranted,
                    dictVars, HF_TOKEN, tuneVars, nameVars, train_job, model_name,
                    accelerator_type, frame, ENDPOINT_NAME >>

\* train_job.delete() raises: the loops below it do not run.
CleanUpFail ==
    /\ pc = "cleanup"
    /\ calls' = Append(calls, Call("train_job.delete", FALSE, train_job, << >>))
    /\ Raise("SDKError: train_job.delete")
    /\ UNCHANGED << nowLog, bucketVars, dictVars, HF_TOKEN, tuneVars, nameVars,
                    train_job, deployVars, ENDPOINT_NAME, platformVars >>

-----------------------------------------------------------------------------

Next ==
    \/ BucketCell
    \/ InitCell
    \/ FinetunePrepare
    \/ TrainRun
    \/ TrainRunFail
    \/ EndpointCreate
    \/ EndpointCreateFail
    \/ ModelUpload
    \/ ModelUploadFail
    \/ ModelDeploy
    \/ ModelDeployFail
    \/ Predict
    \/ PredictFail
    \/ CleanUp
    \/ CleanUpFail

Spec == Init /\ [][Next]_vars

-----------------------------------------------------------------------------
(* Properties *)

SevenBModels == { "gemma-7b", "gemma-7b-it", "gemma-1.1-7b-it" }

AssertionFailed == pc = "failed" /\ StartsWith(err, "AssertionError")

Called(op) == \E i \in DOMAIN calls : calls[i].op = op

CallsOf(op) == { i \in DOMAIN calls : calls[i].op = op }

\* Nothing of the training or serving side exists: no training job object, no
\* SDK call, no job, endpoint or model on the platform.
NothingSubmitted ==
    /\ train_job = Unset
    /\ calls = << >>
    /\ jobsP = {}
    /\ endpointsP = {}
    /\ modelsP = {}

\* C1: with a 7B model id and ACCELERATOR_TYPE = NVIDIA_TESLA_V100 the finetune
\* step ends in an assertion error, whatever the precision mode, and
\* train_job.run is never called.
C1_7bOnV100Fails ==
    (MODEL_ID \in SevenBModels /\ ACCELERATOR_TYPE = "NVIDIA_TESLA_V100")
        => /\ AssertionFailed
           /\ ~Called("train_job.run")

C1_Witness ==
    /\ MODEL_ID = "gemma-1.1-7b-it"
    /\ ACCELERATOR_TYPE = "NVIDIA_TESLA_V100"
    /\ finetuning_precision_mode = "4bit"
    /\ pc = "failed"

\* C2: with a 7B model id and ACCELERATOR_TYPE = NVIDIA_L4 the finetune step goes
\* on to the training job only in 4bit; in 8bit and float16 it ends in an
\* assertion error with no training job submitted.
C2_7bOnL4Needs4bit ==
    (MODEL_ID \in SevenBModels /\ ACCELERATOR_TYPE = "NVIDIA_L4")
        => IF finetuning_precision_mode = "4bit"
           THEN ~AssertionFailed /\ train_job # Unset
           ELSE AssertionFailed /\ NothingSubmitted

C2_Witness ==
    /\ MODEL_ID = "gemma-7b-it"
    /\ ACCELERATOR_TYPE = "NVIDIA_L4"
    /\ finetuning_precision_mode = "8bit"
    /\ pc = "failed"

\* The condition of each precondition assertion, on the values the run has bound.
HfTokenMissing == HF_TOKEN = ""
SevenBOnV100 == MODEL_ID \in SevenBModels /\ ACCELERATOR_TYPE = "NVIDIA_TESLA_V100"
SevenBOnL4NotFourBit ==
    /\ MODEL_ID \in SevenBModels
    /\ ACCELERATOR_TYPE = "NVIDIA_L4"
    /\ finetuning_precision_mode # "4bit"
NoMachineType == ACCELERATOR_TYPE # Unset /\ ACCELERATOR_TYPE \notin MenuAccelerators

\* C3: when a precondition fails (HF_TOKEN empty, 7B on V100, 7B on L4 not in
\* 4bit, no machine type for the accelerator) the run has stopped with an
\* assertion error and no training job object, SDK call, job, endpoint or model
\* exists; the stopped state is the end of the run.
C3_AssertionsBeforeSubmission ==
    /\ (HfTokenMissing \/ SevenBOnV100 \/ SevenBOnL4NotFourBit \/ NoMachineType)
           => AssertionFailed
    /\ AssertionFailed => NothingSubmitted /\ ~ENABLED Next

C3_Witness ==
    /\ pc = "failed"
    /\ err = "AssertionError: machine type"
    /\ MODEL_ID = "gemma-7b"
    /\ ACCELERATOR_TYPE = "NVIDIA_TESLA_T4"

\* C4: when the clean-up cell has completed, the training job and every model
\* and endpoint created by the run are deleted.
C4_CleanUpDeletesAll ==
    pc = "done" => jobsP = {} /\ endpointsP = {} /\ modelsP = {}

\* The SDK calls of a run in the order of the script; the loops of the clean-up
\* cell follow.
CallOrder ==
    << "train_job.run", "Endpoint.create", "Model.upload", "model.deploy",
       "endpoint.predict", "train_job.delete" >>

LoopDeletes == { "endpoint.delete", "model.delete" }

\* C5: the SDK calls of a run are a prefix of train_job.run, Endpoint.create,
\* Model.upload, model.deploy, endpoint.predict, the clean-up deletions, and each
\* call but the last has returned: no upload or deploy without a completed
\* training job, no prediction without a returned deploy.
C5_LinearOrder ==
    /\ \A i \in DOMAIN calls :
         IF i <= Len(CallOrder)
         THEN calls[i].op = CallOrder[i]
         ELSE calls[i].op \in LoopDeletes
    /\ \A i \in DOMAIN calls : i < Len(calls) => calls[i].ok
    /\ (Called("Model.upload") \/ Called("model.deploy"))
           => calls[1].op = "train_job.run" /\ calls[1].ok
    /\ Called("endpoint.predict")
           => \E d \in CallsOf("model.deploy") :
                calls[d].ok /\ \A i \in CallsOf("endpoint.predict") : d < i

C5_Witness ==
    /\ pc = "done"
    /\ Len(calls) = Len(CallOrder)
    /\ calls[Len(calls)].op = "train_job.delete"

\* C6: no SDK call is made twice (a delete not twice on one resource), and a call
\* that raised is the last call of the run: the run has stopped and no step is
\* enabled after it.
C6_NoRetryAfterFailure ==
    /\ \A i, j \in DOMAIN calls :
         (i # j /\ calls[i].op = calls[j].op)
             => calls[i].op \in LoopDeletes /\ calls[i].on # calls[j].on
    /\ \A i \in DOMAIN calls :
         ~calls[i].ok => i = Len(calls) /\ pc = "failed" /\ ~ENABLED Next

C6_Witness ==
    /\ pc = "failed"
    /\ Len(calls) = 4
    /\ calls[4].op = "model.deploy"
    /\ ~calls[4].ok

MachinePairs ==
    { << "NVIDIA_TESLA_V100", "n1-standard-8" >>,
      << "NVIDIA_L4", "g2-standard-12" >>,
      << "NVIDIA_TESLA_A100", "a2-highgpu-1g" >> }

\* C7: the training machine type is fixed by ACCELERATOR_TYPE: after validation,
\* and in every train_job.run call, the pair is one of V100 / n1-standard-8,
\* L4 / g2-standard-12, A100 / a2-highgpu-1g; for any other accelerator
\* machine_type is None, the assertion fails and train_job.run is not called.
C7_MachineTypeByAccelerator ==
    /\ pc = "train_run" => << ACCELERATOR_TYPE, machine_type >> \in MachinePairs
    /\ \A i \in CallsOf("train_job.run") :
         << calls[i].args.accelerator_type, calls[i].args.machine_type >> \in MachinePairs
    /\ NoMachineType
           => machine_type = None /\ AssertionFailed /\ ~Called("train_job.run")

C7_Witness ==
    /\ Called("train_job.run")
    /\ calls[1].args.accelerator_type = "NVIDIA_TESLA_A100"
    /\ calls[1].args.machine_type = "a2-highgpu-1g"
    /\ MODEL_ID = "gemma-7b"

\* Reading a decimal numeral.
DecimalDigits == << "0", "1", "2", "3", "4", "5", "6", "7", "8", "9" >>

IsDigit(c) == \E i \in DOMAIN DecimalDigits : DecimalDigits[i] = c

DigitValue(c) == (CHOOSE i \in DOMAIN DecimalDigits : DecimalDigits[i] = c) - 1

RECURSIVE ParseNat(_)
ParseNat(s) ==
    IF s = "" THEN 0
    ELSE ParseNat(SubSeq(s, 1, Len(s) - 1)) * 10 + DigitValue(SubSeq(s, Len(s), Len(s)))

AllDigits(s) == \A i \in 1..Len(s) : IsDigit(SubSeq(s, i, i))

\* name is prefix, "_", YYYYMMDD, "_", HHMMSS of the clock reading t.
IsStamped(name, prefix, t) ==
    LET n == Len(prefix)
        dt == DateTimeAt(t)
        date == SubSeq(name, n + 2, n + 9)
        time == SubSeq(name, n + 11, n + 16)
    IN  /\ Len(name) = n + 16
        /\ SubSeq(name, 1, n) = prefix
        /\ SubSeq(name, n + 1, n + 1) = "_"
        /\ SubSeq(name, n + 10, n + 10) = "_"
        /\ AllDigits(date) /\ AllDigits(time)
        /\ ParseNat(SubSeq(date, 1, 4)) = dt.year
        /\ ParseNat(SubSeq(date, 5, 6)) = dt.month
        /\ ParseNat(SubSeq(date, 7, 8)) = dt.day
        /\ ParseNat(SubSeq(time, 1, 2)) = dt.hour
        /\ ParseNat(SubSeq(time, 3, 4)) = dt.minute
        /\ ParseNat(SubSeq(time, 5, 6)) = dt.second

\* C8: job_name, lora_adapter_dir and merged_model_dir are "gemma-lora-train",
\* "gemma-lora-adapter" and "gemma-merged-model" followed by "_" and the clock
\* reading of their call (the 2nd, 3rd and 4th of the run) as YYYYMMDD_HHMMSS;
\* names made from one reading carry one suffix.
C8_StampedNames ==
    job_name # Unset
        => /\ IsStamped(job_name, "gemma-lora-train", nowLog[2])
           /\ IsStamped(lora_adapter_dir, "gemma-lora-adapter", nowLog[3])
           /\ IsStamped(merged_model_dir, "gemma-merged-model", nowLog[4])
           /\ nowLog[3] = nowLog[4]
                  => SubSeq(lora_adapter_dir, 19, 34) = SubSeq(merged_model_dir, 19, 34)

C8_Witness ==
    /\ pc = "train_run"
    /\ job_name = "gemma-lora-train_20240209_082018"
    /\ lora_adapter_dir = "gemma-lora-adapter_20240209_164029"
    /\ merged_model_dir = "gemma-merged-model_20240209_164029"

InstanceFields == { "prompt", "max_tokens", "temperature", "top_p", "top_k" }

\* C9: a run that has reached the predict step has made exactly one
\* endpoint.predict call, and the call carries exactly one instance, with the
\* fields prompt, max_tokens, temperature, top_p, top_k.
C9_OnePrediction ==
    /\ Cardinality(CallsOf("endpoint.predict")) <= 1
    /\ ENDPOINT_NAME # Unset => Cardinality(CallsOf("endpoint.predict")) = 1
    /\ \A i \in CallsOf("endpoint.predict") :
         /\ Len(calls[i].args.instances) = 1
         /\ DOMAIN calls[i].args.instances[1] = InstanceFields

C9_Witness ==
    /\ pc = "done"
    /\ calls[5].op = "endpoint.predict"
    /\ calls[5].ok

\* C10: with ENDPOINT_NAME empty the request goes to the endpoint that
\* Endpoint.create returned in this run, which is the endpoint model.deploy
\* deployed the uploaded model on; otherwise it goes to
\* projects/{PROJECT_ID}/locations/{REGION}/endpoints/{ENDPOINT_NAME}.
C10_PredictionTarget ==
    \A i \in CallsOf("endpoint.predict") :
        IF ENDPOINT_NAME = ""
        THEN \E c \in CallsOf("Endpoint.create"), u \in CallsOf("Model.upload"),
                d \in CallsOf("model.deploy") :
               /\ c < i /\ u < d /\ d < i
               /\ calls[c].ok /\ calls[u].ok /\ calls[d].ok
               /\ calls[i].on = calls[c].on
               /\ calls[d].args.endpoint = calls[i].on
               /\ calls[d].on = calls[u].on
        ELSE calls[i].on =
                 "projects/crafty-progress-421108/locations/europe-west4/endpoints/"
                     \o ENDPOINT_NAME

C10_Witness ==
    /\ pc = "done"
    /\ ENDPOINT_NAME = ""
    /\ calls[5].op = "endpoint.predict"
    /\ calls[5].on =
           "projects/crafty-progress-421108/locations/europe-west4/endpoints/555"

\* BUCKET_URI as the form leaves it unset: None, blank, or the bare scheme.
LeftUnset(uri) == uri \in { None, "", " ", "  ", "gs://" }

\* C11: a bucket is made exactly when BUCKET_URI was left unset: it is
\* gs://{PROJECT_ID}-tmp-{timestamp}, made in REGION, and it is the bucket used.
\* A bucket given by the user is never made; if its URI does not start with
\* "gs://" the cell ends in an assertion error, if its reported region differs
\* from REGION in a ValueError, and after either error there is no
\* service-account grant, no Vertex initialisation and no training.
C11_BucketSelection ==
    BUCKET_URI # Unset
        => /\ bucketsMade # {}
                => /\ bucketsMade = { [ uri |-> BUCKET_URI, location |-> "europe-west4" ] }
                   /\ SubSeq(BUCKET_URI, 1, 32) = "gs://crafty-progress-421108-tmp-"
                   /\ Len(BUCKET_URI) = 32 + 14
                   /\ ParseNat(SubSeq(BUCKET_URI, 41, 42)) = DateTimeAt(nowLog[1]).hour
                   /\ ParseNat(SubSeq(BUCKET_URI, 45, 46)) = DateTimeAt(nowLog[1]).second
                   /\ AllDigits(SubSeq(BUCKET_URI, 33, Len(BUCKET_URI)))
                   /\ STAGING_BUCKET = BUCKET_URI \o "/temporal"
                   /\ iamGranted = BUCKET_URI
           /\ bucketsMade = {}
                => /\ ~LeftUnset(BUCKET_URI)
                   /\ SubSeq(BUCKET_URI, 1, 5) # "gs://"
                          => pc = "failed" /\ StartsWith(err, "AssertionError")
                   /\ (bucket_region # Unset /\ bucket_region # "europe-west4")
                          => pc = "failed" /\ StartsWith(err, "ValueError")
                   /\ (pc # "failed" \/ HF_TOKEN # Unset)
                          => /\ SubSeq(BUCKET_URI, 1, 5) = "gs://"
                             /\ bucket_region = "europe-west4"
           /\ (pc = "failed" /\ HF_TOKEN = Unset)
                => /\ iamGranted = ""
                   /\ STAGING_BUCKET = Unset
                   /\ NothingSubmitted
                   /\ ~ENABLED Next

C11_Witness ==
    /\ pc = "failed"
    /\ err = "ValueError: bucket region"
    /\ BUCKET_URI = "gs://my-bucket/run"
    /\ bucket_region = "us-central1"
    /\ bucketsMade = {}

\* C12: every train_job.run call asks for one replica with one accelerator,
\* whatever model, accelerator and precision were chosen, and whatever the
\* deploy cell later binds to accelerator_count and machine_type.
C12_SingleReplicaSingleGpu ==
    \A i \in CallsOf("train_job.run") :
        /\ calls[i].args.replica_count = 1
        /\ calls[i].args.accelerator_count = 1

C12_Witness ==
    /\ pc = "done"
    /\ MODEL_ID = "gemma-7b"
    /\ calls[1].op = "train_job.run"
    /\ calls[1].args.accelerator_count = 1
    /\ calls[1].args.machine_type = "a2-highgpu-1g"
    /\ accelerator_count = 2
    /\ machine_type = "g2-standard-12"

\* The finetune step has passed its validation: the training job object exists.
ValidationPassed == train_job # Unset

\* C13: once the finetune cell has run, validation has passed if and only if the
\* accelerator is V100, L4 or A100 and the combination is neither a 7B model on
\* V100 nor a 7B model on L4 in a precision other than 4bit; so every 2B model
\* passes on the three accelerators in every precision, and every 7B model on
\* A100 in every precision.
C13_ValidationExact ==
    MODEL_ID # Unset
        => /\ ValidationPassed
                <=> /\ ACCELERATOR_TYPE \in MenuAccelerators
                    /\ ~SevenBOnV100
                    /\ ~SevenBOnL4NotFourBit
           /\ ~ValidationPassed => AssertionFailed
           /\ (MODEL_ID \in { "gemma-2b", "gemma-2b-it", "gemma-1.1-2b-it" }
                 /\ ACCELERATOR_TYPE \in MenuAccelerators) => ValidationPassed
           /\ (MODEL_ID \in SevenBModels /\ ACCELERATOR_TYPE = "NVIDIA_TESLA_A100")
                 => ValidationPassed

C13_Witness ==
    /\ pc = "train_run"
    /\ MODEL_ID = "gemma-1.1-2b-it"
    /\ ACCELERATOR_TYPE = "NVIDIA_L4"
    /\ finetuning_precision_mode = "float16"

\* C14: the --model argument of the serving container is the directory given to
\* train_job.run as --merge_base_and_lora_output_dir; that directory and the
\* LoRA --output_dir lie under STAGING_BUCKET and differ, also when both names
\* were made from one clock reading.
C14_DeploysTheMergedModel ==
    /\ \A r \in CallsOf("train_job.run") :
         /\ StartsWith(calls[r].args.merge_base_and_lora_output_dir, STAGING_BUCKET \o "/")
         /\ StartsWith(calls[r].args.output_dir, STAGING_BUCKET \o "/")
         /\ calls[r].args.merge_base_and_lora_output_dir # calls[r].args.output_dir
    /\ \A u \in CallsOf("Model.upload") :
         \E r \in CallsOf("train_job.run") :
            /\ r < u
            /\ calls[u].args.serving_container_args[3]
                   = "--model=" \o calls[r].args.merge_base_and_lora_output_dir

C14_Witness ==
    /\ Called("Model.upload")
    /\ nowLog[3] = nowLog[4]
    /\ calls[1].args.output_dir
           = PathJoin(STAGING_BUCKET, "gemma-lora-adapter_20240209_082018")
    /\ calls[1].args.merge_base_and_lora_output_dir
           = PathJoin(STAGING_BUCKET, "gemma-merged-model_20240209_082018")

\* C15: the --tensor-parallel-size argument uploaded with the model reads, as a
\* decimal numeral, the accelerator_count given to model.deploy.
C15_TensorParallelSize ==
    /\ \A u \in CallsOf("Model.upload") :
         LET arg == calls[u].args.serving_container_args[4]
         IN  /\ SubSeq(arg, 1, 23) = "--tensor-parallel-size="
             /\ Len(arg) > 23
             /\ AllDigits(SubSeq(arg, 24, Len(arg)))
             /\ ParseNat(SubSeq(arg, 24, Len(arg))) = accelerator_count
    /\ \A d \in CallsOf("model.deploy") :
         \E u \in CallsOf("Model.upload") :
            LET arg == calls[u].args.serving_container_args[4]
            IN  /\ u < d
                /\ ParseNat(SubSeq(arg, 24, Len(arg))) = calls[d].args.accelerator_count

C15_Witness ==
    /\ Called("model.deploy")
    /\ calls[4].ok
    /\ calls[4].args.accelerator_count = 16
    /\ calls[3].args.serving_container_args[4] = "--tensor-parallel-size=16"

====
